---- MODULE Spec2Model ----
(***************************************************************************)
(* apt-install-docs: model of src/apt_install_docs/__init__.py.            *)
(*                                                                         *)
(* The package cache (apt.cache.Cache) is the state: which version of each *)
(* package is installed, the "suggests" relations of every version, the    *)
(* packages marked for installation and their automatic bits.  main() is   *)
(* a sequential process; find() is stepped one loop iteration at a time.   *)
(* Package short names are tuples of one-character strings, so that        *)
(* str.endswith, str.lower and str.startswith are computed on characters.  *)
(***************************************************************************)
EXTENDS Integers, Sequences, FiniteSets, TLC

\* ---------------------------------------------------------------- bounds
\* Longest "suggests" list drawn for the varied package version.
MaxSuggests == 2
\* Longest line typed at the confirmation prompt.
MaxInputLen == 3
\* How many times a caller runs find on the same cache (SpecRescan).
MaxRuns == 2

\* ------------------------------------------------------ the package cache
\* Short names of the packages, in the cache's iteration order:
\* "b", "b-doc", "adoc".
PkgName == << <<"b">>, <<"b", "-", "d", "o", "c">>, <<"a", "d", "o", "c">> >>

\* How many versions of each package the cache knows (versions 1..n).
NumVersions == <<2, 2, 1>>

Pkgs == 1..Len(PkgName)

\* pkg.installed is None
None == 0

\* A Version object is <<package, version number>>.
AllVersions == {pv \in Pkgs \X (1..2) : pv[2] <= NumVersions[pv[1]]}

\* Version.package
PackageOf(ver) == ver[1]

\* The literal suffix looked for by find.
DocSuffix == <<"-", "d", "o", "c">>

VARIABLES
    installed,      \* pkg.installed as the opened cache sees it (None = 0)
    suggests,       \* Version.suggests: a sequence of relations per version
    sysInstalled,   \* the system's package database
    marked,         \* packages mark_install was applied to (the change set)
    auto,           \* packages whose automatic-install bit is set
    pc,             \* position of main
    arguments,      \* parse_commandline returned positional arguments
    config,         \* apt_pkg.config: help, version, dry_run
    opened,         \* cache.open() has run
    pi, di, ti,     \* find: package, relation and candidate loop positions
    runs,           \* completed runs of find
    ret,            \* describe's return value (should_install)
    line,           \* the line read by input()
    reads,          \* number of input() calls
    out,            \* what was printed, in order
    commits         \* number of cache.commit() calls

vars == <<installed, suggests, sysInstalled, marked, auto, pc, arguments,
          config, opened, pi, di, ti, runs, ret, line, reads, out, commits>>

cacheVars == <<installed, suggests, sysInstalled, marked, auto>>
findVars == <<pi, di, ti>>
ioVars == <<ret, line, reads, out>>

\* ------------------------------------------------------- string helpers
\* endswith that drops the first character of the suffix ("doc" for "-doc")
EndsWithNoHyphen(s, suffix) ==
    /\ Len(s) >= Len(suffix) - 1
    /\ SubSeq(s, Len(s) - Len(suffix) + 2, Len(s)) = Tail(suffix)

\* str.endswith
EndsWith(s, suffix) ==
    /\ Len(s) >= Len(suffix)
    /\ SubSeq(s, Len(s) - Len(suffix) + 1, Len(s)) = suffix

\* str.startswith
StartsWith(s, prefix) ==
    /\ Len(s) >= Len(prefix)
    /\ SubSeq(s, 1, Len(prefix)) = prefix

\* a lower() that leaves capitals alone
LowerCharKeepCase(c) == c

\* str.lower, on the characters of the input alphabet
LowerChar(c) == IF c = "Y" THEN "y" ELSE c

Lower(s) == [i \in 1..Len(s) |-> LowerChar(s[i])]

\* Character codes, for sorted()
CharCode(c) ==
    CASE c = "-" -> 45
      [] c = "a" -> 97
      [] c = "b" -> 98
      [] c = "c" -> 99
      [] c = "d" -> 100
      [] c = "o" -> 111

\* Lexicographic order of two names (str.__lt__)
RECURSIVE NameLess(_, _)
NameLess(a, b) ==
    IF b = <<>> THEN FALSE
    ELSE IF a = <<>> THEN TRUE
    ELSE IF a[1] # b[1] THEN CharCode(a[1]) < CharCode(b[1])
    ELSE NameLess(Tail(a), Tail(b))

\* sorted(cache.get_changes()), as the sequence of names it prints
RECURSIVE SortedNames(_)
SortedNames(S) ==
    IF S = {} THEN <<>>
    ELSE LET m == CHOOSE x \in S :
                    \A y \in S \ {x} : NameLess(PkgName[x], PkgName[y])
         IN  <<PkgName[m]>> \o SortedNames(S \ {m})

\* ------------------------------------------------- cache contents drawn
\* Candidate versions the varied relations are built from: b-doc 1, adoc 1.
TargetPool == {<<2, 1>>, <<3, 1>>}

\* A relation is the sequence of its target versions (Dependency.target_versions
\* lists every version once).
RelationPool ==
    {r \in UNION {[1..n -> TargetPool] : n \in 0..Cardinality(TargetPool)} :
        \A i, j \in 1..Len(r) : i # j => r[i] # r[j]}

SuggestLists == UNION {[1..n -> RelationPool] : n \in 0..MaxSuggests}

\* The suggests lists of the versions that are not varied:
\*   b 2     suggests  b-doc,  adoc | b-doc (>= 2)
\*   b-doc 2 suggests  adoc
\*   adoc 1  suggests  b-doc (>= 2)
FixedSuggests(ver) ==
    CASE ver = <<1, 2>> -> << << <<2, 1>>, <<2, 2>> >>, << <<3, 1>>, <<2, 2>> >> >>
      [] ver = <<2, 2>> -> << << <<3, 1>> >> >>
      [] ver = <<3, 1>> -> << << <<2, 2>> >> >>
      [] OTHER -> <<>>

InstalledMaps == {f \in [Pkgs -> 0..2] : \A p \in Pkgs : f[p] <= NumVersions[p]}

\* Lines the user can type: over y, Y, n, e, s ("", "y", "Y", "n", "yes", ...).
InputChars == {"y", "Y", "n", "e", "s"}

Lines == UNION {[1..n -> InputChars] : n \in 0..MaxInputLen}

\* ------------------------------------------------------ cache operations
\* Version.is_installed
IsInstalled(ver) == installed[PackageOf(ver)] = ver[2]

\* the newest version of the package instead of its installed one
PkgVersionNewest(p) == <<p, NumVersions[p]>>

\* pkg.versions[pkg.installed]
PkgVersion(p) == <<p, installed[p]>>

\* Dependency.target_versions
TargetVersions(dep) == dep

\* a relation that never reports an installed target
InstalledTargetVersionsNone(dep) == <<>>

\* Dependency.installed_target_versions
InstalledTargetVersions(dep) == SelectSeq(TargetVersions(dep), IsInstalled)

\* Package.shortname
ShortName(p) == PkgName[p]

\* mark_install called with its default, from_user=True
FindFromUserDefault == TRUE

\* the from_user argument find passes to mark_install
FindFromUser == FALSE

\* a mark_install that flips the mark of an already marked package
MarkInstallToggle(p, from_user) ==
    /\ marked' = IF p \in marked THEN marked \ {p} ELSE marked \cup {p}
    /\ auto' = IF from_user THEN auto \ {p} ELSE auto \cup {p}

\* Package.mark_install(from_user=...)
MarkInstall(p, from_user) ==
    /\ marked' = marked \cup {p}
    /\ auto' = IF from_user THEN auto \ {p} ELSE auto \cup {p}

\* cache.get_changes()
GetChanges == marked

\* an emptiness test that never fires
NoChangesNever == FALSE

\* not cache.get_changes()
NoChanges == GetChanges = {}

\* the version cache.commit() installs for a marked package
Candidate(p) == NumVersions[p]

\* one printed message
Msg(t) == [tag |-> t, names |-> <<>>]

\* --------------------------------------------------------------- Init
CacheInit ==
    /\ installed \in InstalledMaps
    /\ \E L \in SuggestLists :
          suggests = [ver \in AllVersions |->
                         IF ver = <<1, 1>> THEN L ELSE FixedSuggests(ver)]
    /\ sysInstalled = installed
    /\ marked = {}
    /\ auto = {}

IdleInit ==
    /\ arguments = FALSE
    /\ config = [help |-> FALSE, version |-> FALSE, dry_run |-> FALSE]
    /\ runs = 0
    /\ ret = FALSE
    /\ line = <<>>
    /\ reads = 0
    /\ out = <<>>
    /\ commits = 0

Init ==
    /\ CacheInit
    /\ IdleInit
    /\ pc = "start"
    /\ opened = FALSE
    /\ pi = 0 /\ di = 0 /\ ti = 0

\* --------------------------------------------------------------- main
ParseCommandline ==
    /\ pc = "start"
    /\ \E a, h, v, n \in BOOLEAN :
          /\ arguments' = a
          /\ config' = [help |-> h, version |-> v, dry_run |-> n]
    /\ pc' = "parsed"
    /\ UNCHANGED <<cacheVars, findVars, ioVars, opened, runs, commits>>

WantsHelp == arguments \/ config.help

Help ==
    /\ pc = "parsed"
    /\ WantsHelp
    /\ out' = Append(out, Msg("todo"))
    /\ pc' = "done"
    /\ UNCHANGED <<cacheVars, findVars, arguments, config, opened, runs,
                   ret, line, reads, commits>>

Version ==
    /\ pc = "parsed"
    /\ ~WantsHelp
    /\ config.version
    /\ out' = Append(out, Msg("version"))
    /\ pc' = "done"
    /\ UNCHANGED <<cacheVars, findVars, arguments, config, opened, runs,
                   ret, line, reads, commits>>

OpenCache ==
    /\ pc = "parsed"
    /\ ~WantsHelp
    /\ ~config.version
    /\ opened' = TRUE
    /\ pc' = "find"
    /\ pi' = 1 /\ di' = 0 /\ ti' = 0
    /\ UNCHANGED <<cacheVars, arguments, config, runs, ioVars, commits>>

\* --------------------------------------------------------------- find
\* for pkg in cache: if pkg.installed is None: continue
FindPkg ==
    /\ pc = "find"
    /\ di = 0
    /\ pi <= Len(PkgName)
    /\ IF installed[pi] = None
       THEN pi' = pi + 1 /\ di' = 0
       ELSE pi' = pi /\ di' = 1
    /\ ti' = 0
    /\ UNCHANGED <<cacheVars, pc, arguments, config, opened, runs, ioVars,
                   commits>>

\* for dep in pkg_version.suggests: if dep.installed_target_versions: continue
FindDep ==
    /\ pc = "find"
    /\ di >= 1
    /\ ti = 0
    /\ LET deps == suggests[PkgVersion(pi)]
       IN  IF di > Len(deps)
           THEN pi' = pi + 1 /\ di' = 0 /\ ti' = 0
           ELSE IF InstalledTargetVersions(deps[di]) # <<>>
                THEN pi' = pi /\ di' = di + 1 /\ ti' = 0
                ELSE pi' = pi /\ di' = di /\ ti' = 1
    /\ UNCHANGED <<cacheVars, pc, arguments, config, opened, runs, ioVars,
                   commits>>

\* for dvers in dep.target_versions: if shortname.endswith("-doc"): mark
FindTarget ==
    /\ pc = "find"
    /\ ti >= 1
    /\ LET tvs == TargetVersions(suggests[PkgVersion(pi)][di])
       IN  IF ti > Len(tvs)
           THEN /\ di' = di + 1 /\ ti' = 0
                /\ UNCHANGED <<marked, auto>>
           ELSE /\ IF EndsWith(ShortName(PackageOf(tvs[ti])), DocSuffix)
                   THEN MarkInstall(PackageOf(tvs[ti]), FindFromUser)
                   ELSE UNCHANGED <<marked, auto>>
                /\ di' = di /\ ti' = ti + 1
    /\ pi' = pi
    /\ UNCHANGED <<installed, suggests, sysInstalled, pc, arguments, config,
                   opened, runs, ioVars, commits>>

\* the package loop is exhausted: find returns
FindReturn ==
    /\ pc = "find"
    /\ di = 0
    /\ pi > Len(PkgName)
    /\ runs' = runs + 1
    /\ pc' = "describe"
    /\ UNCHANGED <<cacheVars, findVars, arguments, config, opened, ioVars,
                   commits>>

\* ------------------------------------------------------------ describe
\* describe called with its default, prompt=True
PromptDefault == TRUE

\* prompt=not dry_run
Prompt == ~config.dry_run

\* not (choice == '' or choice.startswith('y')), negated
Accepted(ln) ==
    LET choice == Lower(ln)
    IN  choice = <<>> \/ StartsWith(choice, <<"y">>)

\* the two lines that list the pending packages
Listing == << Msg("header"), [tag |-> "list", names |-> SortedNames(GetChanges)] >>

DescribeIO ==
    /\ pc = "describe"
    /\ IF NoChanges
       THEN /\ out' = Append(out, Msg("all_installed"))
            /\ ret' = FALSE
            /\ UNCHANGED <<line, reads>>
       ELSE IF ~Prompt
       THEN /\ out' = out \o Listing
            /\ ret' = FALSE
            /\ UNCHANGED <<line, reads>>
       ELSE \E ln \in Lines :
               /\ line' = ln
               /\ reads' = reads + 1
               /\ IF Accepted(ln)
                  THEN /\ out' = out \o Listing \o <<Msg("prompt")>>
                       /\ ret' = TRUE
                  ELSE /\ out' = out \o Listing \o <<Msg("prompt"), Msg("abort")>>
                       /\ ret' = FALSE
    /\ pc' = "described"
    /\ UNCHANGED <<findVars, arguments, config, opened, runs, commits>>

\* a describe that clears the pending changes when it does not return True
DescribeClearing ==
    /\ DescribeIO
    /\ marked' = IF ret' THEN marked ELSE {}
    /\ auto' = IF ret' THEN auto ELSE {}
    /\ UNCHANGED <<installed, suggests, sysInstalled>>

Describe ==
    /\ DescribeIO
    /\ UNCHANGED cacheVars

\* ------------------------------------------------------------- install
\* install(cache) called unconditionally
ShouldInstallAlways == TRUE

\* if should_install:
ShouldInstall == ret

Install ==
    /\ pc = "described"
    /\ ShouldInstall
    /\ commits' = commits + 1
    /\ sysInstalled' = [p \in Pkgs |->
                           IF p \in GetChanges THEN Candidate(p)
                                               ELSE sysInstalled[p]]
    /\ pc' = "done"
    /\ UNCHANGED <<installed, suggests, marked, auto, findVars, arguments,
                   config, opened, runs, ioVars>>

Return ==
    /\ pc = "described"
    /\ ~ShouldInstall
    /\ pc' = "done"
    /\ UNCHANGED <<cacheVars, findVars, arguments, config, opened, runs,
                   ioVars, commits>>

Find == FindPkg \/ FindDep \/ FindTarget \/ FindReturn

Next ==
    \/ ParseCommandline
    \/ Help
    \/ Version
    \/ OpenCache
    \/ Find
    \/ Describe
    \/ Install
    \/ Return

Spec == Init /\ [][Next]_vars

\* ------------------------------------------- find run again by a caller
InitRescan ==
    /\ CacheInit
    /\ IdleInit
    /\ pc = "find"
    /\ opened = TRUE
    /\ pi = 1 /\ di = 0 /\ ti = 0

\* find(cache) called again on the cache the previous call left
Rescan ==
    /\ pc = "describe"
    /\ runs < MaxRuns
    /\ pc' = "find"
    /\ pi' = 1 /\ di' = 0 /\ ti' = 0
    /\ UNCHANGED <<cacheVars, arguments, config, opened, runs, ioVars,
                   commits>>

NextRescan == Find \/ Rescan

SpecRescan == InitRescan /\ [][NextRescan]_vars

\* ================================================================ claims
\* The properties below are stated on the cache itself, without the
\* operators find is built from.

\* the short name of p ends with the four characters - d o c
HasDocSuffix(p) ==
    LET n == PkgName[p]
    IN  /\ Len(n) >= 4
        /\ n[Len(n) - 3] = "-"
        /\ n[Len(n) - 2] = "d"
        /\ n[Len(n) - 1] = "o"
        /\ n[Len(n)] = "c"

\* some candidate version of relation r is the installed version of its package
Satisfied(r) == \E i \in 1..Len(r) : installed[r[i][1]] = r[i][2]

\* the packages of the candidate versions of relation r
CandidatePkgs(r) == {r[i][1] : i \in 1..Len(r)}

\* <<p, k>>: the k-th suggestion relation of the installed version of p
InstalledRelations ==
    {sr \in Pkgs \X (1..(MaxSuggests + 1)) :
        /\ installed[sr[1]] # 0
        /\ sr[2] <= Len(suggests[<<sr[1], installed[sr[1]]>>])}

RelationAt(sr) == suggests[<<sr[1], installed[sr[1]]>>][sr[2]]

\* find has returned
FindDone == runs >= 1 /\ pc # "find"

\* describe has returned
DescribeDone == pc = "described" \/ (pc = "done" /\ opened)

\* the first character of the typed line is y or Y, or the line is empty
SaysYes == line = <<>> \/ line[1] = "y" \/ line[1] = "Y"

\* C1 as stated: after find, for every suggestion relation R of an installed
\* version and every candidate of R, the candidate's package is marked iff
\* its short name ends with "-doc" and R has no installed target version.
C1_SuffixFilterPerRelation ==
    FindDone =>
        \A sr \in InstalledRelations :
            \A p \in CandidatePkgs(RelationAt(sr)) :
                p \in marked <=> (HasDocSuffix(p) /\ ~Satisfied(RelationAt(sr)))

\* C1 amended: after find, a package is marked iff its short name ends with
\* "-doc" and it is the package of a candidate of at least one suggestion
\* relation, of the installed version of an installed package, that has no
\* installed target version.
C1_SuffixFilter ==
    FindDone =>
        \A p \in Pkgs :
            p \in marked <=>
                /\ HasDocSuffix(p)
                /\ \E sr \in InstalledRelations :
                      /\ p \in CandidatePkgs(RelationAt(sr))
                      /\ ~Satisfied(RelationAt(sr))

\* C1 witness: find has marked a "-doc" package and has left unmarked a
\* candidate whose name only ends with "doc", in an unsatisfied relation.
C1_Witness ==
    /\ FindDone
    /\ \E sr \in InstalledRelations :
          /\ ~Satisfied(RelationAt(sr))
          /\ \E p, q \in CandidatePkgs(RelationAt(sr)) :
                /\ HasDocSuffix(p) /\ p \in marked
                /\ ~HasDocSuffix(q) /\ q \notin marked

\* C2 as stated: after find, no candidate of a relation that has an installed
\* candidate is marked, whatever other relations list the same package.
C2_NoCandidateOfSatisfiedMarked ==
    FindDone =>
        \A sr \in InstalledRelations :
            Satisfied(RelationAt(sr)) =>
                CandidatePkgs(RelationAt(sr)) \cap marked = {}

\* C2 amended: after find, a candidate of a relation that has an installed
\* candidate is marked only if a different relation of an installed version
\* lists the same package and has no installed candidate.
C2_SkipIfSatisfied ==
    FindDone =>
        \A sr \in InstalledRelations :
            Satisfied(RelationAt(sr)) =>
                \A p \in CandidatePkgs(RelationAt(sr)) \cap marked :
                    \E other \in InstalledRelations \ {sr} :
                        /\ p \in CandidatePkgs(RelationAt(other))
                        /\ ~Satisfied(RelationAt(other))

\* C2 witness: a satisfied relation with a "-doc" candidate was skipped and
\* nothing is marked.
C2_Witness ==
    /\ FindDone
    /\ marked = {}
    /\ \E sr \in InstalledRelations :
          /\ Satisfied(RelationAt(sr))
          /\ \E p \in CandidatePkgs(RelationAt(sr)) : HasDocSuffix(p)

\* C3: once find has returned, running it again on the same cache changes
\* the set of marked packages in no step.
C3_Idempotent == [][runs >= 1 => marked' = marked]_vars

\* C3 witness: the last of several runs of find has returned, with marks.
C3_Witness == runs = MaxRuns /\ pc = "describe" /\ marked # {}

\* C4: every marked package has its automatic bit set, during and after find.
C4_AutomaticFlag == marked \subseteq auto

\* C4 witness: find is in progress and has marked a package.
C4_Witness == pc = "find" /\ marked # {}

\* C5: every marked package is a candidate of a suggestion relation of the
\* installed version of an installed package.
C5_OnlyInstalledSources ==
    \A p \in marked :
        \E sr \in InstalledRelations : p \in CandidatePkgs(RelationAt(sr))

\* C5 witness: a version that is not installed has an unsatisfied relation
\* with a "-doc" candidate, and find has returned without marking it.
C5_Witness ==
    /\ FindDone
    /\ \E ver \in AllVersions :
          /\ installed[ver[1]] # ver[2]
          /\ \E k \in 1..Len(suggests[ver]) :
                /\ ~Satisfied(suggests[ver][k])
                /\ \E p \in CandidatePkgs(suggests[ver][k]) :
                      HasDocSuffix(p) /\ p \notin marked

\* C6: describe without prompt never returns true; describe with prompt on a
\* non-empty change set returns true exactly when the line is empty or
\* starts with y or Y.
C6_ConfirmationGating ==
    DescribeDone =>
        /\ config.dry_run => ~ret
        /\ (~config.dry_run /\ marked # {}) => (ret <=> SaysYes)

\* C6 witness: describe has accepted the line "Yes".
C6_Witness ==
    /\ pc = "described"
    /\ ret
    /\ line = <<"Y", "e", "s">>

\* C7: commit is invoked at most once, and only when the cache is open, find
\* has returned and describe has returned true; never on the help, version,
\* empty-change-set and decline paths.
C7_CommitGated ==
    /\ commits <= 1
    /\ commits = 1 =>
          /\ opened
          /\ runs = 1
          /\ pc = "done"
          /\ ret
          /\ ~arguments /\ ~config.help /\ ~config.version
          /\ marked # {}
          /\ SaysYes

\* C7 witness: commit has been invoked.
C7_Witness == commits = 1

\* C8: under dry run no line is read, commit is not invoked and the system's
\* installed set stays what it was.
C8_DryRun ==
    (pc # "start" /\ config.dry_run) =>
        /\ reads = 0
        /\ commits = 0
        /\ sysInstalled = installed

\* C8 witness: a dry run has finished with pending changes listed.
C8_Witness ==
    /\ pc = "done"
    /\ opened
    /\ config.dry_run
    /\ marked # {}

\* C9: on an empty change set describe prints only the "all installed"
\* message, returns false and reads no input, whatever prompt is.
C9_EmptyChange ==
    (DescribeDone /\ marked = {}) =>
        /\ out = << [tag |-> "all_installed", names |-> <<>>] >>
        /\ ~ret
        /\ reads = 0

\* C9 witness: describe was called with prompt true on an empty change set
\* although an installed package suggests an installed "-doc" package.
C9_Witness ==
    /\ pc = "described"
    /\ ~config.dry_run
    /\ marked = {}
    /\ \E sr \in InstalledRelations :
          \E p \in CandidatePkgs(RelationAt(sr)) :
              HasDocSuffix(p) /\ installed[p] # 0

\* C10: the step describe takes leaves the marked packages, their automatic
\* bits and the installed sets as they were, and reads at most one line.
C10_DescribeFrame ==
    [][pc = "describe" =>
          /\ marked' = marked
          /\ auto' = auto
          /\ installed' = installed
          /\ sysInstalled' = sysInstalled
          /\ suggests' = suggests
          /\ reads' \in {reads, reads + 1}]_vars

\* C10 witness: describe has read a line and declined, with changes pending.
C10_Witness ==
    /\ pc = "described"
    /\ reads = 1
    /\ ~ret
    /\ marked # {}

====
